---- MODULE Spec2Model ----
(***************************************************************************)
(* amrt: grouping of log lines into multi-line paragraphs by an ordered    *)
(* list of boundary regular expressions (split_text), and the aggregated   *)
(* report of the match counts (report).  Model of src/src/amrt/__init__.py *)
(*                                                                         *)
(* Text is a sequence of one-character strings.  The regular expressions   *)
(* of the model are the dialect  ['^'] literal-characters : such a pattern *)
(* matches a string iff its literal is a prefix of the string (re.match    *)
(* anchors at position 0), and a source that holds '(' does not compile    *)
(* (re.error: missing ')').                                                *)
(***************************************************************************)
EXTENDS Integers, Sequences, FiniteSets, TLC

VARIABLES
    regex_data,        \* the Expression list given to split_text and report
    file,              \* the raw lines the file iterator yields, in order
    lineno,            \* index of the next raw line the for loop reads
    current_group,     \* split_text: current_group
    current_regexp,    \* split_text: current_regexp (None or an index of regex_data)
    match_count,       \* split_text: match_count, a defaultdict(int): id -> int
    result,            \* split_text: result, a list of (paragraph, excluded)
    id_memo,           \* indices of the Expressions whose _id is set
    pattern_memo,      \* indices of the Expressions whose _pattern is set
    exclude_memo,      \* indices of the Expressions whose _exclude_patterns is assigned
    summary,           \* report: the echoed summary line, <<>> when none was echoed
    table,             \* report: the rows added to the table
    final_expression,  \* report: the synthesized first-line expression, <<>> before
    pc,                \* "loop", "done" (split_text returned), "reported", "fault"
    fault,             \* the exception that ended the run, "none" otherwise
    run,               \* 1, or 2 when the same Expression objects are used again
    first_run          \* what the first run returned, once a second run started

vars == <<regex_data, file, lineno, current_group, current_regexp, match_count,
          result, id_memo, pattern_memo, exclude_memo, summary, table,
          final_expression, pc, fault, run, first_run>>

-----------------------------------------------------------------------------
(* Bounds of the model *)

MaxLines == 3
MaxExprs == 2

-----------------------------------------------------------------------------
(* Text *)

NL == "\n"

None == 0

IsPrefix(p, s) == Len(p) <= Len(s) /\ SubSeq(s, 1, Len(p)) = p

\* str.strip("\n"): drops every leading and every trailing line terminator
RECURSIVE StripLeft(_)
StripLeft(s) == IF s # <<>> /\ Head(s) = NL THEN StripLeft(Tail(s)) ELSE s

RECURSIVE StripRight(_)
StripRight(s) ==
    IF s # <<>> /\ s[Len(s)] = NL THEN StripRight(SubSeq(s, 1, Len(s) - 1)) ELSE s

StripKeepsTerminator(raw) == raw

StripNL(raw) == StripRight(StripLeft(raw))

\* sep.join(parts)
RECURSIVE JoinSep(_, _)
JoinSep(sep, parts) ==
    IF parts = <<>> THEN <<>>
    ELSE IF Len(parts) = 1 THEN parts[1]
    ELSE parts[1] \o sep \o JoinSep(sep, Tail(parts))

JoinNoSeparator(lines) == JoinSep(<<>>, lines)

\* "\n".join(lines)
Join(lines) == JoinSep(<<NL>>, lines)

-----------------------------------------------------------------------------
(* Expression *)

\* re.compile(source) succeeds
Compiles(source) == \A i \in 1..Len(source) : source[i] # "("

Literal(source) ==
    IF source # <<>> /\ source[1] = "^" THEN Tail(source) ELSE source

FullMatch(source, text) == Literal(source) = text

\* re.compile(source).match(text): a match at position 0
Match(source, text) == IsPrefix(Literal(source), text)

IdWithDesc(e) == <<"md5", e.expression, e.desc>>

IdIgnoresSource(e) == <<"md5">>

\* Expression.id: the md5 hex digest of the pattern source
Id(e) == <<"md5", e.expression>>

\* the list comprehension of should_exclude compiles every known pattern
KnownCompile(e) == \A i \in 1..Len(e.known) : Compiles(e.known[i])

ShouldExcludeFullMatch(e, paragraph) ==
    \E i \in 1..Len(e.known) : FullMatch(e.known[i], paragraph)

\* Expression.should_exclude, once its patterns are compiled
ShouldExclude(e, paragraph) ==
    \E i \in 1..Len(e.known) : Match(e.known[i], paragraph)

-----------------------------------------------------------------------------
(* The match counter: collections.defaultdict(int) *)

Get(counter, id) == IF id \in DOMAIN counter THEN counter[id] ELSE 0

\* reading counter[id] for every id of ids inserts the missing ones with 0
Touch(counter, ids) == [k \in DOMAIN counter \cup ids |-> Get(counter, k)]

IncrSetsOne(counter, id) ==
    [k \in DOMAIN counter \cup {id} |-> IF k = id THEN 1 ELSE counter[k]]

IncrDropped(counter, id) == Touch(counter, {id})

\* counter[id] += 1
Incr(counter, id) ==
    [k \in DOMAIN counter \cup {id} |->
        IF k = id THEN Get(counter, id) + 1 ELSE counter[k]]

RECURSIVE SumOver(_, _)
SumOver(counter, keys) ==
    IF keys = {} THEN 0
    ELSE LET k == CHOOSE x \in keys : TRUE
         IN  counter[k] + SumOver(counter, keys \ {k})

\* sum(counter.values())
Total(counter) == SumOver(counter, DOMAIN counter)

-----------------------------------------------------------------------------
(* split_text *)

\* Expression.pattern of regex_data[k] returns a compiled pattern: the memoized
\* one if _pattern is set, else the one re.compile returns
Compiled(k) == k \in pattern_memo \/ Compiles(regex_data[k].expression)

\* should_exclude of regex_data[k] has its patterns: the memoized list if it is
\* not empty, else the list it compiles from known
KnownCompiled(k) ==
    \/ k \in exclude_memo /\ regex_data[k].known # <<>>
    \/ KnownCompile(regex_data[k])

\* for regexp in regex_data, from index k on: the first Expression whose
\* pattern matches the line; compiling a pattern on the way may raise
RECURSIVE ScanFrom(_, _)
ScanFrom(k, line) ==
    IF k > Len(regex_data) THEN [kind |-> "none", idx |-> Len(regex_data)]
    ELSE IF ~Compiled(k) THEN [kind |-> "error", idx |-> k]
    ELSE IF Match(regex_data[k].expression, line) THEN [kind |-> "match", idx |-> k]
    ELSE ScanFrom(k + 1, line)

RECURSIVE ScanNoBreakFrom(_, _, _)
ScanNoBreakFrom(k, line, found) ==
    IF k > Len(regex_data) THEN found
    ELSE IF ~Compiled(k) THEN [kind |-> "error", idx |-> k]
    ELSE IF Match(regex_data[k].expression, line)
         THEN ScanNoBreakFrom(k + 1, line, [kind |-> "match", idx |-> k])
    ELSE ScanNoBreakFrom(k + 1, line, found)

ScanNoBreak(line) ==
    ScanNoBreakFrom(1, line, [kind |-> "none", idx |-> Len(regex_data)])

Scan(line) == ScanFrom(1, line)

\* the Expressions whose pattern property a scan reads before it stops
Scanned(s) == IF s.kind = "error" THEN 1..(s.idx - 1) ELSE 1..s.idx

\* what push raises: None has no should_exclude; a known pattern may not compile
PushFault(expression, lines) ==
    IF Len(lines) < 2 THEN "none"
    ELSE IF expression = None THEN "AttributeError"
    ELSE IF ~KnownCompiled(expression) THEN "re.error(known)"
    ELSE "none"

PushPrepends(expression, lines, res) ==
    IF Len(lines) < 2 THEN res
    ELSE <<
           <<Join(lines), ShouldExclude(regex_data[expression], Join(lines))>>
         >> \o res

\* push, when it raises nothing
Push(expression, lines, res) ==
    IF Len(lines) < 2 THEN res
    ELSE Append(res, <<Join(lines), ShouldExclude(regex_data[expression], Join(lines))>>)

\* the Expressions whose _exclude_patterns push assigns
PushMemo(expression, lines) == IF Len(lines) < 2 THEN {} ELSE {expression}

Line == StripNL(file[lineno])

UNCHANGED_report == UNCHANGED <<summary, table, final_expression>>

SkipBlankExtendsGroup ==
    /\ pc = "loop" /\ lineno <= Len(file)
    /\ Line = <<>>
    /\ current_group' = Append(current_group, Line)
    /\ lineno' = lineno + 1
    /\ UNCHANGED <<regex_data, file, run, first_run, current_regexp, match_count,
                   result, id_memo, pattern_memo, exclude_memo, pc, fault>>
    /\ UNCHANGED_report

\* line 82: a blank line is skipped
SkipBlank ==
    /\ pc = "loop" /\ lineno <= Len(file)
    /\ Line = <<>>
    /\ lineno' = lineno + 1
    /\ UNCHANGED <<regex_data, file, run, first_run, current_group, current_regexp, match_count,
                   result, id_memo, pattern_memo, exclude_memo, pc, fault>>
    /\ UNCHANGED_report

\* line 85: the pattern property raises re.error for a source that does not compile
PatternError ==
    /\ pc = "loop" /\ lineno <= Len(file)
    /\ Line # <<>>
    /\ Scan(Line).kind = "error"
    /\ pattern_memo' = pattern_memo \cup Scanned(Scan(Line))
    /\ pc' = "fault"
    /\ fault' = "re.error(expression)"
    /\ UNCHANGED <<regex_data, file, run, first_run, lineno, current_group, current_regexp,
                   match_count, result, id_memo, exclude_memo>>
    /\ UNCHANGED_report

BoundaryMatchOwnerIsCloser ==
    /\ pc = "loop" /\ lineno <= Len(file)
    /\ Line # <<>>
    /\ LET s == Scan(Line)
           closes == Len(current_group) > 1
           raised == IF closes THEN PushFault(s.idx, current_group) ELSE "none"
       IN  /\ s.kind = "match"
           /\ raised = "none"
           /\ pattern_memo' = pattern_memo \cup Scanned(s)
           /\ id_memo' = id_memo \cup {s.idx}
           /\ match_count' = Incr(match_count, Id(regex_data[s.idx]))
           /\ result' = IF closes THEN Push(s.idx, current_group, result)
                        ELSE result
           /\ exclude_memo' = IF closes
                              THEN exclude_memo \cup PushMemo(s.idx, current_group)
                              ELSE exclude_memo
           /\ current_regexp' = s.idx
           /\ current_group' = <<Line>>
    /\ lineno' = lineno + 1
    /\ UNCHANGED <<regex_data, file, run, first_run, pc, fault>>
    /\ UNCHANGED_report

BoundaryMatchKeepsGroup ==
    /\ pc = "loop" /\ lineno <= Len(file)
    /\ Line # <<>>
    /\ LET s == Scan(Line)
           closes == Len(current_group) > 1
           raised == IF closes THEN PushFault(current_regexp, current_group) ELSE "none"
       IN  /\ s.kind = "match"
           /\ raised = "none"
           /\ pattern_memo' = pattern_memo \cup Scanned(s)
           /\ id_memo' = id_memo \cup {s.idx}
           /\ match_count' = Incr(match_count, Id(regex_data[s.idx]))
           /\ result' = IF closes THEN Push(current_regexp, current_group, result)
                        ELSE result
           /\ exclude_memo' = IF closes
                              THEN exclude_memo \cup PushMemo(current_regexp, current_group)
                              ELSE exclude_memo
           /\ current_regexp' = s.idx
           /\ current_group' = Append(current_group, Line)
    /\ lineno' = lineno + 1
    /\ UNCHANGED <<regex_data, file, run, first_run, pc, fault>>
    /\ UNCHANGED_report

\* lines 85-91: a boundary line; the current group is closed if it has 2 lines or more
BoundaryMatch ==
    /\ pc = "loop" /\ lineno <= Len(file)
    /\ Line # <<>>
    /\ LET s == Scan(Line)
           closes == Len(current_group) > 1
           raised == IF closes THEN PushFault(current_regexp, current_group) ELSE "none"
       IN  /\ s.kind = "match"
           /\ raised = "none"
           /\ pattern_memo' = pattern_memo \cup Scanned(s)
           /\ id_memo' = id_memo \cup {s.idx}
           /\ match_count' = Incr(match_count, Id(regex_data[s.idx]))
           /\ result' = IF closes THEN Push(current_regexp, current_group, result)
                        ELSE result
           /\ exclude_memo' = IF closes
                              THEN exclude_memo \cup PushMemo(current_regexp, current_group)
                              ELSE exclude_memo
           /\ current_regexp' = s.idx
           /\ current_group' = <<Line>>
    /\ lineno' = lineno + 1
    /\ UNCHANGED <<regex_data, file, run, first_run, pc, fault>>
    /\ UNCHANGED_report

\* lines 85-88: a boundary line whose push raises, after the counter was incremented
BoundaryPushFault ==
    /\ pc = "loop" /\ lineno <= Len(file)
    /\ Line # <<>>
    /\ LET s == Scan(Line)
       IN  /\ s.kind = "match"
           /\ Len(current_group) > 1
           /\ PushFault(current_regexp, current_group) # "none"
           /\ pattern_memo' = pattern_memo \cup Scanned(s)
           /\ id_memo' = id_memo \cup {s.idx}
           /\ match_count' = Incr(match_count, Id(regex_data[s.idx]))
           /\ fault' = PushFault(current_regexp, current_group)
    /\ pc' = "fault"
    /\ UNCHANGED <<regex_data, file, run, first_run, lineno, current_group, current_regexp, result,
                   exclude_memo>>
    /\ UNCHANGED_report

\* lines 92-93: no Expression matches, the line extends the current group
Continuation ==
    /\ pc = "loop" /\ lineno <= Len(file)
    /\ Line # <<>>
    /\ Scan(Line).kind = "none"
    /\ pattern_memo' = pattern_memo \cup Scanned(Scan(Line))
    /\ current_group' = Append(current_group, Line)
    /\ lineno' = lineno + 1
    /\ UNCHANGED <<regex_data, file, run, first_run, current_regexp, match_count, result, id_memo,
                   exclude_memo, pc, fault>>
    /\ UNCHANGED_report

ClosesFromThreeLines(group, owner) == Len(group) > 2 /\ owner # None

\* line 95: the last group is pushed if it has 2 lines or more and an owner
Closes(group, owner) == Len(group) > 1 /\ owner # None

\* lines 95-98: the input is exhausted; the last group is closed if it has an owner
EndOfInput ==
    /\ pc = "loop" /\ lineno > Len(file)
    /\ LET closes == Closes(current_group, current_regexp)
           raised == IF closes THEN PushFault(current_regexp, current_group) ELSE "none"
       IN  /\ raised = "none"
           /\ result' = IF closes THEN Push(current_regexp, current_group, result)
                        ELSE result
           /\ exclude_memo' = IF closes
                              THEN exclude_memo \cup PushMemo(current_regexp, current_group)
                              ELSE exclude_memo
    /\ pc' = "done"
    /\ UNCHANGED <<regex_data, file, run, first_run, lineno, current_group, current_regexp,
                   match_count, id_memo, pattern_memo, fault>>
    /\ UNCHANGED_report

\* lines 95-96: the last push raises on a known pattern that does not compile
EndPushFault ==
    /\ pc = "loop" /\ lineno > Len(file)
    /\ Closes(current_group, current_regexp)
    /\ PushFault(current_regexp, current_group) # "none"
    /\ fault' = PushFault(current_regexp, current_group)
    /\ pc' = "fault"
    /\ UNCHANGED <<regex_data, file, run, first_run, lineno, current_group, current_regexp,
                   match_count, result, id_memo, pattern_memo, exclude_memo>>
    /\ UNCHANGED_report

-----------------------------------------------------------------------------
(* report *)

Key(counter, i) == Get(counter, Id(regex_data[i]))

\* x, met later in the input list, goes before h only if its key orders strictly first
Before(counter, reverse, x, h) ==
    IF reverse THEN Key(counter, x) > Key(counter, h)
    ELSE Key(counter, x) < Key(counter, h)

RECURSIVE Insert(_, _, _, _)
Insert(s, x, counter, reverse) ==
    IF s = <<>> THEN <<x>>
    ELSE IF Before(counter, reverse, x, Head(s)) THEN <<x>> \o s
    ELSE <<Head(s)>> \o Insert(Tail(s), x, counter, reverse)

\* sorted(expressions, key=lambda x: counter[x.id], reverse=reverse), a stable
\* sort, as the sequence of the indices of regex_data
RECURSIVE StableSort(_, _, _)
StableSort(n, counter, reverse) ==
    IF n = 0 THEN <<>>
    ELSE Insert(StableSort(n - 1, counter, reverse), n, counter, reverse)

Reverse(s) == [i \in 1..Len(s) |-> s[Len(s) + 1 - i]]

SortedAscendingReversed(counter) ==
    Reverse(StableSort(Len(regex_data), counter, FALSE))

\* line 122: the order in which report walks the Expressions
Sorted(counter) == StableSort(Len(regex_data), counter, TRUE)

\* f"{count / total * 100:.2f}", as hundredths of a percent
Pct(count, total) == (2 * 10000 * count + total) \div (2 * total)

\* lines 124-131: one row of the table
Row(e, counter, total) ==
    <<e.expression, e.desc, Get(counter, Id(e)), Pct(Get(counter, Id(e)), total)>>

FinalExpressionNoWildcard(components) ==
    <<"(">> \o JoinSep(<<"|">>, components) \o <<")">>

\* line 135: f'({"|".join(final_expression_components)}).*'
FinalExpression(components) ==
    <<"(">> \o JoinSep(<<"|">>, components) \o <<")", ".", "*">>

NumExcluded(res) == Cardinality({i \in 1..Len(res) : res[i][2]})

AllIds == {Id(regex_data[i]) : i \in 1..Len(regex_data)}

\* lines 116-120: the summary is echoed only for a non-empty result
Summary(res, total) ==
    IF res # <<>> THEN <<Len(res), total, NumExcluded(res)>> ELSE <<>>

\* lines 116-138: report completes
Report ==
    /\ pc = "done"
    /\ LET total == Total(match_count)
           order == Sorted(match_count)
       IN  /\ ~(total = 0 /\ Len(regex_data) > 0)
           /\ summary' = Summary(result, total)
           /\ table' = [i \in 1..Len(order) |->
                            Row(regex_data[order[i]], match_count, total)]
           /\ final_expression' =
                  FinalExpression([i \in 1..Len(order) |->
                                       regex_data[order[i]].expression])
    /\ match_count' = Touch(match_count, AllIds)
    /\ id_memo' = 1..Len(regex_data)
    /\ pc' = "reported"
    /\ UNCHANGED <<regex_data, file, run, first_run, lineno, current_group, current_regexp, result,
                   pattern_memo, exclude_memo, fault>>

\* line 129: count / total raises ZeroDivisionError for the first row when total is 0
ReportZeroDivision ==
    /\ pc = "done"
    /\ Total(match_count) = 0 /\ Len(regex_data) > 0
    /\ summary' = Summary(result, 0)
    /\ match_count' = Touch(match_count, AllIds)
    /\ id_memo' = 1..Len(regex_data)
    /\ pc' = "fault"
    /\ fault' = "ZeroDivisionError"
    /\ UNCHANGED <<regex_data, file, run, first_run, lineno, current_group, current_regexp, result,
                   pattern_memo, exclude_memo, table, final_expression>>

-----------------------------------------------------------------------------
(* Inputs *)

SeqsUpTo(S, n) == UNION {[1..k -> S] : k \in 0..n}

\* raw lines as the file iterator yields them: text without a terminator inside,
\* ended by the terminator, except possibly the last line of the file
TerminatedLines == {<<NL>>, <<"a", NL>>, <<"a", "b", NL>>, <<"x", NL>>}

UnterminatedLines == {<<"x">>}

Files ==
    {f \in SeqsUpTo(TerminatedLines \cup UnterminatedLines, MaxLines) :
        \A i \in 1..(Len(f) - 1) : f[i] \in TerminatedLines}

ExprA == [desc |-> "a", expression |-> <<"^", "a">>, known |-> << <<"a", "b">> >>]

ExprAB == [desc |-> "ab", expression |-> <<"a", "b">>, known |-> <<>>]

ExprA2 == [desc |-> "a again", expression |-> <<"^", "a">>, known |-> <<>>]

ExprBad == [desc |-> "bad", expression |-> <<"(">>, known |-> <<>>]

ExprX == [desc |-> "x", expression |-> <<"x">>,
          known |-> << <<"x", NL, "a">>, <<"(">> >>]

Expressions == {ExprA, ExprAB, ExprA2, ExprBad, ExprX}

Configs == SeqsUpTo(Expressions, MaxExprs)

\* the scenario of the specification: ^ERROR and ^WARN over six lines
PatERROR == <<"^", "E", "R", "R", "O", "R">>

PatWARN == <<"^", "W", "A", "R", "N">>

KnownWARN == <<"^", "W", "A", "R", "N", ":", " ", "d", "e", "p", "r", "e", "c", "a", "t", "e", "d">>

ScenarioConfig ==
    << [desc |-> "error", expression |-> PatERROR, known |-> <<>>],
       [desc |-> "warn", expression |-> PatWARN, known |-> <<KnownWARN>>] >>

LineErrorStart == <<"E", "R", "R", "O", "R", " ", "s", "t", "a", "r", "t">>

LineDetail1 == <<" ", " ", "d", "e", "t", "a", "i", "l", "1">>

LineDetail2 == <<" ", " ", "d", "e", "t", "a", "i", "l", "2">>

LineWarn == <<"W", "A", "R", "N", ":", " ", "d", "e", "p", "r", "e", "c", "a", "t", "e", "d">>

LineDetail3 == <<" ", " ", "d", "e", "t", "a", "i", "l", "3">>

LineErrorAgain == <<"E", "R", "R", "O", "R", " ", "a", "g", "a", "i", "n">>

ScenarioFile ==
    << LineErrorStart \o <<NL>>, LineDetail1 \o <<NL>>, LineDetail2 \o <<NL>>,
       LineWarn \o <<NL>>, LineDetail3 \o <<NL>>, LineErrorAgain \o <<NL>> >>

IsScenario == regex_data = ScenarioConfig /\ file = ScenarioFile

-----------------------------------------------------------------------------
(* A second run over the same Expression objects *)

NoRun == [pc |-> "none", fault |-> "none", result |-> <<>>, match_count |-> <<>>,
          final_expression |-> <<>>]

SplitTextEntryKeepsCounter ==
    /\ result' = <<>>
    /\ current_group' = <<>>
    /\ current_regexp' = None
    /\ UNCHANGED match_count
    /\ lineno' = 1

\* lines 68-79: split_text starts with an empty result, group and counter and no
\* owner, and reads the file from its first line
SplitTextEntry ==
    /\ result' = <<>>
    /\ current_group' = <<>>
    /\ current_regexp' = None
    /\ match_count' = <<>>
    /\ lineno' = 1

\* split_text, and report after it, are called again on the same lines with the
\* Expression objects of the first run, which keep _id, _pattern, _exclude_patterns
Rerun ==
    /\ run = 1
    /\ pc \in {"done", "reported", "fault"}
    /\ run' = 2
    /\ first_run' = [pc |-> pc, fault |-> fault, result |-> result,
                     match_count |-> match_count,
                     final_expression |-> final_expression]
    /\ SplitTextEntry
    /\ summary' = <<>>
    /\ table' = <<>>
    /\ final_expression' = <<>>
    /\ pc' = "loop"
    /\ fault' = "none"
    /\ UNCHANGED <<regex_data, file, id_memo, pattern_memo, exclude_memo>>

-----------------------------------------------------------------------------
(* Specification *)

Init ==
    /\ \/ regex_data \in Configs /\ file \in Files
       \/ regex_data = ScenarioConfig /\ file = ScenarioFile
    /\ lineno = 1
    /\ current_group = <<>>
    /\ current_regexp = None
    /\ match_count = <<>>
    /\ result = <<>>
    /\ id_memo = {}
    /\ pattern_memo = {}
    /\ exclude_memo = {}
    /\ summary = <<>>
    /\ table = <<>>
    /\ final_expression = <<>>
    /\ pc = "loop"
    /\ fault = "none"
    /\ run = 1
    /\ first_run = NoRun

Next ==
    \/ SkipBlank
    \/ PatternError
    \/ BoundaryMatch
    \/ BoundaryPushFault
    \/ Continuation
    \/ EndOfInput
    \/ EndPushFault
    \/ Report
    \/ ReportZeroDivision

Spec == Init /\ [][Next]_vars

NextRerun == Next \/ Rerun

SpecRerun == Init /\ [][NextRerun]_vars

-----------------------------------------------------------------------------
(* Properties *)

\* text.split("\n")
RECURSIVE SplitAcc(_, _)
SplitAcc(text, cur) ==
    IF text = <<>> THEN <<cur>>
    ELSE IF Head(text) = NL THEN <<cur>> \o SplitAcc(Tail(text), <<>>)
    ELSE SplitAcc(Tail(text), Append(cur, Head(text)))

SplitNL(text) == SplitAcc(text, <<>>)

NumExprs == Len(regex_data)

\* the line matches the boundary pattern of some Expression
LineMatches(line) ==
    \E k \in 1..NumExprs :
        Compiles(regex_data[k].expression) /\ Match(regex_data[k].expression, line)

\* l is the raw line without its terminator
IsStrippedOf(l, raw) ==
    /\ raw = l \/ raw = l \o <<NL>>
    /\ \A i \in 1..Len(l) : l[i] # NL

\* the non-blank lines among the first n raw lines that match a boundary pattern
BoundaryLines(n) ==
    {i \in 1..n : \E l \in {SubSeq(file[i], 1, Len(file[i]) - 1), file[i]} :
                      IsStrippedOf(l, file[i]) /\ l # <<>> /\ LineMatches(l)}

CountOf(i) == Get(match_count, Id(regex_data[i]))

Perms(n) == {p \in [1..n -> 1..n] : \A i, j \in 1..n : i # j => p[i] # p[j]}

\* p lists the Expressions by descending count, equal counts in configured order
IsStableDescending(p) ==
    \A i, j \in 1..NumExprs :
        i < j => \/ CountOf(p[i]) > CountOf(p[j])
                 \/ CountOf(p[i]) = CountOf(p[j]) /\ p[i] < p[j]

TableFollows(p) ==
    /\ Len(table) = NumExprs
    /\ \A i \in 1..NumExprs :
           /\ table[i][1] = regex_data[p[i]].expression
           /\ table[i][2] = regex_data[p[i]].desc
           /\ table[i][3] = CountOf(p[i])

RECURSIVE Alternation(_, _)
Alternation(p, i) ==
    IF i > NumExprs THEN <<>>
    ELSE (IF i > 1 THEN <<"|">> ELSE <<>>)
         \o regex_data[p[i]].expression \o Alternation(p, i + 1)

\* C1: every Paragraph of result has at least 2 lines, in every state of
\* split_text and after it, whether a boundary match or the end of the input
\* closed its group.
C1_MinTwoLines ==
    \A i \in 1..Len(result) : Len(SplitNL(result[i][1])) >= 2

\* a Paragraph was emitted and at least one counted group was dropped
C1_Witness ==
    /\ pc = "done"
    /\ Len(result) >= 1
    /\ Total(match_count) > Len(result)

\* C2: closing a leading group of 2 or more unowned lines at the first boundary
\* match never ends in a fault (as claimed; the code raises AttributeError).
C2_NoUnownedFault ==
    ~(/\ pc = "fault"
      /\ fault = "AttributeError"
      /\ current_regexp = None
      /\ Len(current_group) >= 2)

\* C3: with a non-empty Expression list and a total of 0, report never divides
\* by the total (as claimed; the code raises ZeroDivisionError).
C3_NoZeroDivision ==
    (NumExprs > 0 /\ Total(match_count) = 0) => fault # "ZeroDivisionError"

\* C4: while split_text runs and after it returned, the sum of the counter equals
\* the number of non-blank lines read so far that match a boundary pattern.
C4_SumCountsBoundaryLines ==
    pc \in {"loop", "done", "reported"} =>
        Total(match_count) = Cardinality(BoundaryLines(lineno - 1))

\* boundary lines were counted although every group they opened was dropped
C4_Witness ==
    /\ pc = "done"
    /\ result = <<>>
    /\ Total(match_count) >= 2

\* C5: a step that counts a line makes the earliest Expression whose pattern
\* matches it the owner, and adds 1 to the counter slot of that Expression only.
C5_FirstMatchWins ==
    [][(pc = "loop" /\ match_count' # match_count) =>
          \E l \in {SubSeq(file[lineno], 1, Len(file[lineno]) - 1), file[lineno]} :
             /\ IsStrippedOf(l, file[lineno])
             /\ \E k \in 1..NumExprs :
                   /\ Match(regex_data[k].expression, l)
                   /\ \A j \in 1..(k - 1) : ~Match(regex_data[j].expression, l)
                   /\ pc' = "loop" => current_regexp' = k
                   /\ DOMAIN match_count' = DOMAIN match_count \cup {Id(regex_data[k])}
                   /\ \A id \in DOMAIN match_count' :
                         match_count'[id] =
                             Get(match_count, id)
                                 + (IF id = Id(regex_data[k]) THEN 1 ELSE 0)]_vars

\* the line that opened the current group matches a later Expression too, and
\* only the owner's slot was incremented
C5_Witness ==
    /\ current_regexp # None
    /\ current_group # <<>>
    /\ CountOf(current_regexp) = 1
    /\ \E j \in (current_regexp + 1)..NumExprs :
           /\ regex_data[j].expression # regex_data[current_regexp].expression
           /\ Compiles(regex_data[j].expression)
           /\ Match(regex_data[j].expression, current_group[1])
           /\ CountOf(j) = 0

\* C6: a boundary pattern that does not compile is reported before any counter is
\* incremented, any line is added to a group or any Paragraph is emitted (as
\* claimed; the code compiles a pattern when the scan of a line reaches it).
C6_CompileBeforeAnyLine ==
    fault = "re.error(expression)" =>
        /\ Total(match_count) = 0
        /\ current_group = <<>>
        /\ result = <<>>

\* C7: a group is built of the stripped input lines in input order, and the text
\* of an emitted Paragraph splits on the terminator into exactly its group.
C7_RoundTrip ==
    [][/\ result' # result =>
            /\ Len(result') = Len(result) + 1
            /\ SubSeq(result', 1, Len(result)) = result
            /\ SplitNL(result'[Len(result')][1]) = current_group
       /\ current_group' # current_group =>
            /\ current_group' # <<>>
            /\ IsStrippedOf(current_group'[Len(current_group')], file[lineno])
            /\ \/ current_group' = Append(current_group, current_group'[Len(current_group')])
               \/ Len(current_group') = 1]_vars

\* a Paragraph of three lines was emitted
C7_Witness ==
    \E i \in 1..Len(result) : Len(SplitNL(result[i][1])) >= 3

\* C8: the rows of a completed report list the Expressions by descending count,
\* and Expressions with equal counts in their configured order.
C8_StableDescendingRows ==
    pc = "reported" =>
        \E p \in Perms(NumExprs) : IsStableDescending(p) /\ TableFollows(p)

\* a report with two Expressions of equal count and different descriptions
C8_Witness ==
    /\ pc = "reported"
    /\ \E i, j \in 1..NumExprs :
           /\ i < j
           /\ CountOf(i) = CountOf(j)
           /\ regex_data[i].desc # regex_data[j].desc

\* C9: the synthesized expression of a completed report is '(' , the pattern
\* sources of all Expressions in the order of the rows joined with '|', ').*'.
C9_FinalExpression ==
    pc = "reported" =>
        \E p \in Perms(NumExprs) :
            /\ IsStableDescending(p)
            /\ TableFollows(p)
            /\ final_expression = <<"(">> \o Alternation(p, 1) \o <<")", ".", "*">>

\* a report whose order differs from the configured order
C9_Witness ==
    /\ pc = "reported"
    /\ NumExprs >= 2
    /\ CountOf(1) < CountOf(2)
    /\ regex_data[1].expression # regex_data[2].expression

\* C10: on the ^ERROR / ^WARN scenario split_text returns the counts ERROR = 2 and
\* WARN = 1 and exactly the three-line ERROR Paragraph, not excluded, then the
\* two-line WARN Paragraph, excluded.
C10_Scenario ==
    (IsScenario /\ pc \in {"done", "reported"}) =>
        /\ DOMAIN match_count = {Id(ScenarioConfig[1]), Id(ScenarioConfig[2])}
        /\ match_count[Id(ScenarioConfig[1])] = 2
        /\ match_count[Id(ScenarioConfig[2])] = 1
        /\ result =
             << <<LineErrorStart \o <<NL>> \o LineDetail1 \o <<NL>> \o LineDetail2, FALSE>>,
                <<LineWarn \o <<NL>> \o LineDetail3, TRUE>> >>

\* split_text returned on the scenario
C10_Witness == IsScenario /\ pc = "done"

-----------------------------------------------------------------------------
(* Properties, continued *)

\* the raw line without its terminator
Chomp(raw) ==
    CHOOSE l \in {SubSeq(raw, 1, Len(raw) - 1), raw} : IsStrippedOf(l, raw)

IsBlank(n) == Chomp(file[n]) = <<>>

IsBoundary(n) == ~IsBlank(n) /\ LineMatches(Chomp(file[n]))

\* the earliest Expression whose pattern matches the line
Earliest(l) ==
    CHOOSE k \in 1..NumExprs :
        /\ Compiles(regex_data[k].expression) /\ Match(regex_data[k].expression, l)
        /\ \A j \in 1..(k - 1) :
               ~(Compiles(regex_data[j].expression) /\ Match(regex_data[j].expression, l))

\* the non-blank lines, stripped, among the raw lines s..e
RECURSIVE NonBlank(_, _)
NonBlank(s, e) ==
    IF s > e THEN <<>>
    ELSE (IF IsBlank(s) THEN <<>> ELSE <<Chomp(file[s])>>) \o NonBlank(s + 1, e)

Intervals == {iv \in (1..Len(file)) \X (1..Len(file)) : iv[1] <= iv[2]}

\* some known pattern of the Expression matches at position 0 of the text
KnownMatches(e, text) ==
    \E i \in 1..Len(e.known) : IsPrefix(Literal(e.known[i]), text)

\* result' is result with one Paragraph appended
Appended == Len(result') = Len(result) + 1 /\ SubSeq(result', 1, Len(result)) = result

\* the Paragraph appended by the step is the current group, joined, with the
\* exclusion test of the current owner
ClosedByOwner ==
    /\ Appended
    /\ current_regexp # None
    /\ SplitNL(result'[Len(result')][1]) = current_group
    /\ result'[Len(result')][2] =
           KnownMatches(regex_data[current_regexp], result'[Len(result')][1])

NoLineMatches == \A n \in 1..Len(file) : ~IsBoundary(n)

SplitTextFaults == {"AttributeError", "re.error(expression)", "re.error(known)"}

DistinctSources ==
    \A i, j \in 1..NumExprs : i # j => regex_data[i].expression # regex_data[j].expression

RECURSIVE SumRows(_)
SumRows(rows) == IF rows = <<>> THEN 0 ELSE Head(rows)[3] + SumRows(Tail(rows))

\* C11: Expressions with the same pattern source share one counter slot: the
\* counter never has more slots than there are distinct sources, and every row of
\* a completed report shows the number of all boundary lines whose earliest
\* matching Expression has the row's source, whatever its description.
C11_SharedSlot ==
    /\ Cardinality(DOMAIN match_count)
           <= Cardinality({regex_data[i].expression : i \in 1..NumExprs})
    /\ pc = "reported" =>
           \A i \in 1..Len(table) :
               table[i][3] =
                   Cardinality({n \in 1..Len(file) :
                       /\ IsBoundary(n)
                       /\ regex_data[Earliest(Chomp(file[n]))].expression = table[i][1]})

\* two Expressions with one source and two descriptions, matched twice
C11_Witness ==
    /\ pc = "reported"
    /\ \E i, j \in 1..NumExprs :
           /\ i < j
           /\ regex_data[i].expression = regex_data[j].expression
           /\ regex_data[i].desc # regex_data[j].desc
           /\ CountOf(i) >= 2

\* C12: a second run on the same lines with the same Expression objects, which
\* keep their memoized id and compiled patterns, ends as the first run did, with
\* the same result, counter and synthesized expression.
C12_SecondRunSame ==
    run = 2 =>
        /\ pc = first_run.pc =>
               /\ result = first_run.result
               /\ match_count = first_run.match_count
               /\ final_expression = first_run.final_expression
               /\ fault = first_run.fault
        /\ pc = "fault" =>
               \/ first_run.pc = "fault" /\ first_run.fault = fault
               \/ first_run.pc = "done" /\ fault = "ZeroDivisionError"
        /\ pc \in {"done", "reported"} =>
               \/ first_run.pc \in {"done", "reported"}
               \/ first_run.pc = "fault" /\ first_run.fault = "ZeroDivisionError"
        /\ pc = "reported" => first_run.pc # "fault"

\* the second run completed its report with a Paragraph excluded by memoized patterns
C12_Witness ==
    /\ run = 2
    /\ pc = "reported"
    /\ first_run.pc = "reported"
    /\ pattern_memo # {}
    /\ \E i \in 1..Len(result) : result[i][2]

\* C13: the owner is the Expression that matched the first line of the current
\* group, and a Paragraph is appended with the exclusion test of that owner (not
\* of the Expression whose match closes the group): true iff a known pattern of
\* the owner matches at position 0 of the text, false for an empty known list.
C13_ExcludedByOwner ==
    [][/\ current_regexp' # None =>
            /\ current_group' # <<>>
            /\ current_regexp' = Earliest(current_group'[1])
       /\ result' # result =>
            /\ ClosedByOwner
            /\ regex_data[current_regexp].known = <<>> => ~result'[Len(result')][2]]_vars

\* a Paragraph that is not excluded although the Expression that closed its group
\* has a known pattern matching it
C13_Witness ==
    /\ pc = "loop"
    /\ Len(result) = 1
    /\ ~result[1][2]
    /\ current_regexp # None
    /\ KnownMatches(regex_data[current_regexp], result[1][1])

\* C14 as claimed: after the input is exhausted a current group of 2 or more
\* lines is the last element of the result.
C14_FinalGroupEmitted ==
    (pc = "done" /\ Len(current_group) >= 2) =>
        /\ result # <<>>
        /\ SplitNL(result[Len(result)][1]) = current_group

\* C14 amended: when split_text returns, a current group of 2 or more lines that
\* has an owner is appended as a boundary match would append it, and a group of
\* fewer lines or without an owner adds nothing.
C14_FinalOwnedGroupEmitted ==
    [][(pc = "loop" /\ pc' = "done") =>
          IF Len(current_group) >= 2 /\ current_regexp # None
          THEN ClosedByOwner
          ELSE result' = result]_vars

\* split_text returned after closing a final group of exactly 2 lines
C14_Witness ==
    /\ pc = "done"
    /\ Len(current_group) = 2
    /\ current_regexp # None
    /\ result # <<>>
    /\ SplitNL(result[Len(result)][1]) = current_group

\* C15: the step that reads a blank line changes neither the current group, the
\* owner, the counter nor the result.
C15_BlankLineChangesNothing ==
    [][(pc = "loop" /\ lineno <= Len(file) /\ IsBlank(lineno)) =>
          /\ UNCHANGED <<current_group, current_regexp, match_count, result>>
          /\ pc' = "loop"]_vars

\* a Paragraph was emitted whose lines lie on both sides of a blank line
C15_Witness ==
    /\ pc = "done"
    /\ result # <<>>
    /\ \E n \in 2..(Len(file) - 1) :
           IsBlank(n) /\ IsBoundary(n - 1) /\ ~IsBlank(n + 1) /\ ~IsBoundary(n + 1)

\* every Paragraph is the non-blank lines from a boundary line up to the next
\* boundary line or the end of the input, none but the first matching a pattern
BoundedByBoundaries ==
    \A i \in 1..Len(result) :
        \E iv \in Intervals :
            /\ SplitNL(result[i][1]) = NonBlank(iv[1], iv[2])
            /\ IsBoundary(iv[1])
            /\ \A n \in (iv[1] + 1)..iv[2] : ~IsBoundary(n)
            /\ iv[2] = Len(file) \/ IsBoundary(iv[2] + 1)

\* C16: every emitted Paragraph is bounded by boundary matches, and a step that
\* reads a line matching no pattern only appends it to the current group.
C16_BoundedByBoundaries ==
    [][/\ BoundedByBoundaries'
       /\ (/\ pc = "loop" /\ lineno <= Len(file)
           /\ ~IsBlank(lineno) /\ ~IsBoundary(lineno)
           /\ pc' = "loop") =>
              /\ current_group' = Append(current_group, Chomp(file[lineno]))
              /\ UNCHANGED <<match_count, result, current_regexp>>]_vars

\* a Paragraph closed by a boundary line, which opened the next group
C16_Witness ==
    /\ pc = "loop"
    /\ Len(result) = 1
    /\ Len(current_group) = 1

\* C17: if no line matches a boundary pattern, split_text does not fault, emits
\* nothing and counts nothing (as claimed; the code raises re.error when the scan
\* of a non-blank line reaches a pattern that does not compile).
C17_NoMatchNoFault ==
    NoLineMatches =>
        /\ fault \notin SplitTextFaults
        /\ result = <<>>
        /\ Total(match_count) = 0

\* C18: the result never holds more Paragraphs than the counter sums to, and the
\* summary of the report shows no more Paragraphs than the total.
C18_ParagraphsAtMostTotal ==
    /\ Len(result) <= Total(match_count)
    /\ summary # <<>> => summary[1] <= summary[2]

\* a summary with as many Paragraphs as counted boundary lines
C18_Witness ==
    /\ pc = "reported"
    /\ summary # <<>>
    /\ summary[1] = summary[2]

\* the Paragraphs are the non-blank lines of disjoint intervals of the input that
\* follow each other in the order of the result
OrderedByPosition ==
    \E ivs \in [1..Len(result) -> Intervals] :
        /\ \A i \in 1..Len(result) :
               SplitNL(result[i][1]) = NonBlank(ivs[i][1], ivs[i][2])
        /\ \A i \in 1..(Len(result) - 1) : ivs[i][2] < ivs[i + 1][1]

\* C19: a step of split_text leaves the result as it is or appends one Paragraph
\* to it, and the Paragraphs lie in the input in the order of the result, no
\* line in two of them.
C19_AppendOnlyInOrder ==
    [][/\ result' = result \/ Appended
       /\ OrderedByPosition']_vars

\* two Paragraphs were emitted
C19_Witness == Len(result) >= 2

\* C20: with pairwise distinct pattern sources, the counts of the rows of a
\* completed report sum to the total of the counter.
C20_RowsSumToTotal ==
    (pc = "reported" /\ DistinctSources) => SumRows(table) = Total(match_count)

\* a report of two Expressions with different sources, both matched
C20_Witness ==
    /\ pc = "reported"
    /\ DistinctSources
    /\ \E i, j \in 1..NumExprs : i # j /\ CountOf(i) >= 1 /\ CountOf(j) >= 1

====
